---- MODULE Spec2Model ----
(***************************************************************************)
(* Model of scripts/fix-test-waits.py: the five-rule rewrite pipeline of   *)
(* fix_file and the driver loop of main.                                   *)
(*                                                                         *)
(* A text is a sequence of lexemes.  Each lexeme stands for one fixed      *)
(* piece of source text, and the regular expressions of the script are     *)
(* modelled by what they match on those pieces:                            *)
(*                                                                         *)
(*   NI   await page.waitForLoadState('networkidle')                       *)
(*   G1   await page.goto(url)                                             *)
(*   G2   await page.goto(url, opts)                                       *)
(*   G3   await page.goto(url, { waitUntil: 'load' })                      *)
(*   G2N  await page.goto(getUrl(), opts)                                  *)
(*   TO   await page.waitForTimeout(<d>)                                   *)
(*   CK   await button.click()                                             *)
(*   CM   // Wait for iframe to load                                       *)
(*   NL   "\n"                                                             *)
(*   NLI  "\n" followed by four spaces                                     *)
(*   CO   ,                                                                *)
(*                                                                         *)
(* and, produced by the replacement templates,                             *)
(*                                                                         *)
(*   R1   await page.waitForSelector('body', { timeout: 5000 })            *)
(*   R3   await page.waitForSelector('#absmartly-sidebar-iframe',          *)
(*          { state: 'attached', timeout: 5000 }).catch(() => {})          *)
(*   R4C  // Wait briefly for UI update                                    *)
(*   R4   await page.waitForLoadState('domcontentloaded',                  *)
(*          { timeout: 2000 }).catch(() => {})                             *)
(*   R5C  // TODO: Replace timeout with specific element wait              *)
(*   R5   await page.waitForFunction(() => document.readyState ===         *)
(*          'complete', { timeout: <d> }).catch(() => {})                  *)
(*                                                                         *)
(* A goto lexeme with inj = n carries n copies of the text                 *)
(*   , { waitUntil: \'domcontentloaded\', timeout: 10000 }                 *)
(* inserted before the first ")" that follows "goto(".                     *)
(*                                                                         *)
(* Field id is the position the lexeme had in the text that was read; a    *)
(* replacement keeps the id of the call it replaces, inserted line breaks  *)
(* have id 0.                                                              *)
(***************************************************************************)
EXTENDS Integers, Sequences, FiniteSets, TLC

VARIABLES fs, entry, pc, idx, content, original, changes, ret,
          total_files, total_changes, passed, skipped, wrote, failed

vars == <<fs, entry, pc, idx, content, original, changes, ret,
          total_files, total_changes, passed, skipped, wrote, failed>>

----------------------------------------------------------------------------
(* Bounds of the explored inputs *)

MaxLen == 4

MaxWaitLen == 5

MaxBatchLen == 2

MaxFiles == 2

(* durations of the waitForTimeout calls in the explored inputs *)
Durations == {300, 500}

----------------------------------------------------------------------------
(* Lexemes *)

Tok(k, d, inj, id) == [k |-> k, d |-> d, inj |-> inj, id |-> id]

Lex(k, d) == [k |-> k, d |-> d]

MinOf(S) == CHOOSE x \in S : \A y \in S : x <= y

MaxOf(S) == CHOOSE x \in S : \A y \in S : x >= y

GotoKinds == {"G1", "G2", "G3", "G2N"}

AwaitKinds == GotoKinds \cup {"NI", "TO", "CK", "R1", "R3", "R4", "R5"}

IsNewline(t) == t.k \in {"NL", "NLI"}

IsTimeout(t) == t.k = "TO"

HasGoto(t) == t.k \in GotoKinds

HasAwait(t) == t.k \in AwaitKinds

HasCommaBrace(t) ==
  \/ t.k \in {"G3", "R1", "R3", "R4", "R5"}
  \/ HasGoto(t) /\ t.inj > 0

(* number of "," in the text between "goto(" and the first ")" after it *)
Group2Commas(t) ==
  (IF t.k \in {"G2", "G3"} THEN 1 ELSE 0) + 2 * t.inj

(* 'waitForTimeout' in s / 'networkidle' in s *)
Contains(name, s) ==
  \E i \in 1..Len(s) :
     \/ name = "waitForTimeout" /\ s[i].k = "TO"
     \/ name = "networkidle" /\ s[i].k = "NI"

----------------------------------------------------------------------------
(* Fix 1: re.subn over the whole text, every networkidle wait is replaced *)

R1Tok(t) == [t EXCEPT !.k = "R1"]

(* the substitution is made but not counted *)
Fix1SubUncounted(s) ==
  [text |-> [i \in 1..Len(s) |-> IF s[i].k = "NI" THEN R1Tok(s[i]) ELSE s[i]],
   n    |-> 0]

Fix1Sub(s) ==
  [text |-> [i \in 1..Len(s) |-> IF s[i].k = "NI" THEN R1Tok(s[i]) ELSE s[i]],
   n    |-> Cardinality({i \in 1..Len(s) : s[i].k = "NI"})]

----------------------------------------------------------------------------
(* Fix 2: content.split('\n'), a guard and a re.search / re.sub per line,  *)
(* '\n'.join.  A line is a maximal run of lexemes without a line break;    *)
(* the four spaces of NLI start the next line and are removed by strip().  *)

LineOf(s, i) ==
  {j \in 1..Len(s) :
     \A m \in (IF i <= j THEN i ELSE j)..(IF i <= j THEN j ELSE i) :
        ~IsNewline(s[m])}

(* 'await ' in line and '.goto(' in line and ', {' not in line
   and not line.strip().endswith(',') *)
LineGuard(s, L) ==
  /\ \E j \in L : HasAwait(s[j])
  /\ \E j \in L : HasGoto(s[j])
  /\ \A j \in L : ~HasCommaBrace(s[j])
  /\ s[MaxOf(L)].k # "CO"

(* match = re.search(...): the first goto call of the line;
   match.group(2).count(',') == 0 *)
FirstMatchHasNoComma(s, L) ==
  LET first == MinOf({j \in L : HasGoto(s[j])})
  IN  Group2Commas(s[first]) = 0

LineRewritten(s, i) ==
  /\ ~IsNewline(s[i])
  /\ LineGuard(s, LineOf(s, i))
  /\ FirstMatchHasNoComma(s, LineOf(s, i))

(* re.sub on the line: every goto call of the line gets the options text *)
Inject(t) == [t EXCEPT !.inj = t.inj + 1]

(* changes += 1, once per rewritten line *)
Fix2Count(s) ==
  Cardinality({MinOf(LineOf(s, i)) : i \in {j \in 1..Len(s) : LineRewritten(s, j)}})

Fix2Lines(s) ==
  [text |-> [i \in 1..Len(s) |->
               IF HasGoto(s[i]) /\ LineRewritten(s, i) THEN Inject(s[i]) ELSE s[i]],
   n    |-> Fix2Count(s)]

----------------------------------------------------------------------------
(* Fix 3: re.subn with re.DOTALL.  "\n\s+" directly before the call: a     *)
(* line break followed by at least one white-space character.              *)

PrecededByNlWs(s, j) ==
  /\ j > 1
  /\ \/ s[j-1].k = "NLI"
     \/ s[j-1].k = "NL" /\ j > 2 /\ IsNewline(s[j-2])

(* leftmost comment from pos on, then (.*? is lazy and spans lines) the
   first call after it that "\n\s+" precedes; the scan resumes after it *)
RECURSIVE Fix3Targets(_, _)
Fix3Targets(s, pos) ==
  LET cms == {i \in pos..Len(s) : s[i].k = "CM"}
  IN  IF cms = {} THEN {}
      ELSE LET cm  == MinOf(cms)
               tos == {j \in (cm+1)..Len(s) : IsTimeout(s[j]) /\ PrecededByNlWs(s, j)}
           IN  IF tos = {} THEN {}
               ELSE {MinOf(tos)} \cup Fix3Targets(s, MinOf(tos) + 1)

R3Tok(t) == [t EXCEPT !.k = "R3", !.d = 0]

Fix3Sub(s) ==
  LET hit == Fix3Targets(s, 1)
  IN  [text |-> [i \in 1..Len(s) |-> IF i \in hit THEN R3Tok(s[i]) ELSE s[i]],
       n    |-> Cardinality(hit)]

----------------------------------------------------------------------------
(* Fix 4: re.subn of  click() \s* \n (\s+) waitForTimeout(\d+)              *)

(* the first lexeme after position i that is not a line break, or 0 *)
NextNonWs(s, i) ==
  LET rest == {j \in (i+1)..Len(s) : ~IsNewline(s[j])}
  IN  IF rest = {} THEN 0 ELSE MinOf(rest)

(* "\s*\n(\s+)" matches the white space ws between the two calls: it holds *)
(* a line break that is not its last character                            *)
WsMatches(ws) ==
  /\ Len(ws) > 0
  /\ ~(Len(ws) = 1 /\ ws[1].k = "NL")

Fix4MatchAt(s, i) ==
  /\ s[i].k = "CK"
  /\ NextNonWs(s, i) # 0
  /\ IsTimeout(s[NextNonWs(s, i)])
  /\ WsMatches(SubSeq(s, i + 1, NextNonWs(s, i) - 1))

(* "\n\2": \s* is greedy, so group 2 is what follows the last line break  *)
(* of ws that still has a character after it                              *)
NlGroup2(ws) ==
  IF ws[Len(ws)].k = "NLI" THEN <<ws[Len(ws)]>>
  ELSE <<ws[Len(ws) - 1], ws[Len(ws)]>>

R4CTok(t) == [t EXCEPT !.k = "R4C", !.d = 0]

R4Tok(t) == [t EXCEPT !.k = "R4", !.d = 0]

Fix4Replacement(s, i) ==
  LET j  == NextNonWs(s, i)
      ws == SubSeq(s, i + 1, j - 1)
  IN  <<s[i]>> \o NlGroup2(ws) \o <<R4CTok(s[j])>> \o NlGroup2(ws) \o <<R4Tok(s[j])>>

RECURSIVE Fix4Scan(_, _)
Fix4Scan(s, pos) ==
  IF pos > Len(s) THEN [text |-> <<>>, n |-> 0]
  ELSE IF Fix4MatchAt(s, pos)
       THEN LET r == Fix4Scan(s, NextNonWs(s, pos) + 1)
            IN  [text |-> Fix4Replacement(s, pos) \o r.text, n |-> r.n + 1]
       ELSE LET r == Fix4Scan(s, pos + 1)
            IN  [text |-> <<s[pos]>> \o r.text, n |-> r.n]


----------------------------------------------------------------------------
(* Fix 5: re.subn, every remaining waitForTimeout(\d+) call; \2 carries   *)
(* the digits into the replacement, which starts with the TODO comment    *)
(* and a line break followed by four spaces                               *)

R5CTok(t) == [t EXCEPT !.k = "R5C", !.d = 0]

(* a fixed timeout in place of the digits of the call *)
R5TokFixed(t) == [t EXCEPT !.k = "R5", !.d = 5000]

R5Tok(t) == [t EXCEPT !.k = "R5"]

Fix5Replacement(t) == <<R5CTok(t), Tok("NLI", 0, 0, 0), R5Tok(t)>>

RECURSIVE Fix5Scan(_, _)
Fix5Scan(s, pos) ==
  IF pos > Len(s) THEN [text |-> <<>>, n |-> 0]
  ELSE LET r == Fix5Scan(s, pos + 1)
       IN  IF IsTimeout(s[pos])
           THEN [text |-> Fix5Replacement(s[pos]) \o r.text, n |-> r.n + 1]
           ELSE [text |-> <<s[pos]>> \o r.text, n |-> r.n]

Fix5Sub(s) == Fix5Scan(s, 1)

(* the catch-all rule run before the click rule *)
Fix4SubAfterCatchAll(s) ==
  LET r5 == Fix5Scan(s, 1)
      r4 == Fix4Scan(r5.text, 1)
  IN  [text |-> r4.text, n |-> r5.n + r4.n]

(* content, n = re.subn(...) of Fix 4 *)
Fix4Sub(s) == Fix4Scan(s, 1)

----------------------------------------------------------------------------
(* The five rules in the order of fix_file: the text and the value of     *)
(* changes after Fix 5                                                    *)

FixText(s) ==
  LET r1 == Fix1Sub(s)
      r2 == Fix2Lines(r1.text)
      r3 == Fix3Sub(r2.text)
      r4 == Fix4Sub(r3.text)
      r5 == Fix5Sub(r4.text)
  IN  [text |-> r5.text, n |-> r1.n + r2.n + r3.n + r4.n + r5.n]

----------------------------------------------------------------------------
(* Input texts *)

Lexemes(kinds) ==
  {Lex(k, 0) : k \in kinds \ {"TO"}} \cup
  (IF "TO" \in kinds THEN {Lex("TO", d) : d \in Durations} ELSE {})

(* the lexemes of a file, each at its position *)
Mk(l) == [i \in 1..Len(l) |-> Tok(l[i].k, l[i].d, 0, i)]

Texts(lexemes, maxlen) == {Mk(l) : l \in UNION {[1..m -> lexemes] : m \in 0..maxlen}}

GeneralLexemes ==
  Lexemes({"NI", "G1", "G2", "G3", "G2N", "TO", "CK", "CM", "NL", "NLI", "CO"})

WaitLexemes == Lexemes({"CM", "CK", "TO", "NL", "NLI", "G1"})

BatchLexemes == {Lex("NI", 0), Lex("G1", 0), Lex("TO", 500)}

----------------------------------------------------------------------------
(* main and fix_file *)

(* entry = "main": the script is run; entry = "fix_file": fix_file is     *)
(* called on file 1 directly                                              *)

(* spec_files = list(TESTS_DIR.rglob("*.spec.ts")): the files 1..Len(fs) *)
spec_files == 1..Len(fs)

(* f.read() on a file object at offset pos: the rest of the file, and the *)
(* offset moves to the end                                                *)
FRead(text, pos) ==
  [data |-> SubSeq(text, pos + 1, Len(text)), pos |-> Len(text)]

(* 'waitForTimeout' not in f.read() and 'networkidle' not in f.read() *)
PrefilterSkips(text) ==
  LET first == FRead(text, 0)
  IN  /\ ~Contains("waitForTimeout", first.data)
      /\ ~Contains("networkidle", FRead(text, first.pos).data)

(* the exception is caught in the loop and the next file is taken *)
RaiseCaught(f) ==
  /\ pc' = "for"
  /\ failed' = failed \cup {f}
  /\ idx' = idx + 1

(* an exception of open / read / write for file f: main has no handler,   *)
(* the exception leaves fix_file and main                                 *)
Raise(f) ==
  /\ pc' = "crashed"
  /\ failed' = failed \cup {f}
  /\ UNCHANGED idx

InitWith(texts, maxfiles) ==
  /\ fs \in UNION {[1..n -> texts] : n \in 1..maxfiles}
  /\ \/ entry = "main" /\ pc = "for"
     \/ entry = "fix_file" /\ pc = "fix_open"
  /\ idx = 1
  /\ content = <<>>
  /\ original = <<>>
  /\ changes = 0
  /\ ret = 0
  /\ total_files = 0
  /\ total_changes = 0
  /\ passed = {}
  /\ skipped = {}
  /\ wrote = {}
  /\ failed = {}

Init == InitWith(Texts(GeneralLexemes, MaxLen), 1)

InitWaits == InitWith(Texts(WaitLexemes, MaxWaitLen), 1)

InitBatch == InitWith(Texts(BatchLexemes, MaxBatchLen), MaxFiles)

(* for filepath in spec_files: with open(filepath, 'r') as f: if ...: continue *)
MainPrefilter ==
  /\ pc = "for"
  /\ idx \in spec_files
  /\ IF PrefilterSkips(fs[idx])
     THEN /\ skipped' = skipped \cup {idx}
          /\ idx' = idx + 1
          /\ pc' = "for"
     ELSE /\ pc' = "fix_open"
          /\ UNCHANGED <<skipped, idx>>
  /\ UNCHANGED <<fs, entry, content, original, changes, ret, total_files,
                 total_changes, passed, wrote, failed>>

MainPrefilterRaises ==
  /\ pc = "for"
  /\ idx \in spec_files
  /\ Raise(idx)
  /\ UNCHANGED <<fs, entry, content, original, changes, ret, total_files,
                 total_changes, passed, skipped, wrote>>

(* changes = fix_file(filepath): content = f.read(); original = content; changes = 0 *)
FixOpen ==
  /\ pc = "fix_open"
  /\ passed' = passed \cup {idx}
  /\ content' = FRead(fs[idx], 0).data
  /\ original' = FRead(fs[idx], 0).data
  /\ changes' = 0
  /\ pc' = "fix1"
  /\ UNCHANGED <<fs, entry, idx, ret, total_files, total_changes, skipped, wrote, failed>>

FixOpenRaises ==
  /\ pc = "fix_open"
  /\ passed' = passed \cup {idx}
  /\ Raise(idx)
  /\ UNCHANGED <<fs, entry, content, original, changes, ret, total_files,
                 total_changes, skipped, wrote>>

(* content, n = rule(content); changes += n *)
Step(from, to, r) ==
  /\ pc = from
  /\ content' = r.text
  /\ changes' = changes + r.n
  /\ pc' = to
  /\ UNCHANGED <<fs, entry, idx, original, ret, total_files, total_changes,
                 passed, skipped, wrote, failed>>

Fix1 == Step("fix1", "fix2", Fix1Sub(content))

Fix2 == Step("fix2", "fix3", Fix2Lines(content))

Fix3 == Step("fix3", "fix4", Fix3Sub(content))

Fix4 == Step("fix4", "fix5", Fix4Sub(content))

Fix5 == Step("fix5", "fix_write", Fix5Sub(content))

(* if content != original: write, return changes; return 0 *)
FixWrite ==
  /\ pc = "fix_write"
  /\ IF content # original
     THEN /\ fs' = [fs EXCEPT ![idx] = content]
          /\ wrote' = wrote \cup {idx}
          /\ ret' = changes
     ELSE /\ ret' = 0
          /\ UNCHANGED <<fs, wrote>>
  /\ pc' = "returned"
  /\ UNCHANGED <<entry, idx, content, original, changes, total_files,
                 total_changes, passed, skipped, failed>>

FixWriteRaises ==
  /\ pc = "fix_write"
  /\ content # original
  /\ Raise(idx)
  /\ UNCHANGED <<fs, entry, content, original, changes, ret, total_files,
                 total_changes, passed, skipped, wrote>>

(* if changes > 0: total_files += 1; total_changes += changes *)
MainAccount ==
  /\ pc = "returned"
  /\ entry = "main"
  /\ IF ret > 0
     THEN /\ total_files' = total_files + 1
          /\ total_changes' = total_changes + ret
     ELSE UNCHANGED <<total_files, total_changes>>
  /\ idx' = idx + 1
  /\ pc' = "for"
  /\ UNCHANGED <<fs, entry, content, original, changes, ret, passed, skipped, wrote, failed>>

(* the loop is exhausted: the summary is printed *)
MainSummary ==
  /\ pc = "for"
  /\ idx \notin spec_files
  /\ pc' = "done"
  /\ UNCHANGED <<fs, entry, idx, content, original, changes, ret, total_files,
                 total_changes, passed, skipped, wrote, failed>>

Next ==
  \/ MainPrefilter
  \/ MainPrefilterRaises
  \/ FixOpen
  \/ FixOpenRaises
  \/ Fix1
  \/ Fix2
  \/ Fix3
  \/ Fix4
  \/ Fix5
  \/ FixWrite
  \/ FixWriteRaises
  \/ MainAccount
  \/ MainSummary

Spec == Init /\ [][Next]_vars

SpecWaits == InitWaits /\ [][Next]_vars

SpecBatch == InitBatch /\ [][Next]_vars

----------------------------------------------------------------------------
(* Properties *)

(* the run of line breaks that ends directly before position j *)
WsBefore(s, j) ==
  LET starts == {b \in 1..j : \A p \in b..(j-1) : IsNewline(s[p])}
  IN  SubSeq(s, MinOf(starts), j - 1)

(* the call at j starts a line and is indented or follows an empty line *)
Indented(s, j) ==
  LET ws == WsBefore(s, j)
  IN  Len(ws) > 0 /\ ~(Len(ws) = 1 /\ ws[1].k = "NL")

(* the call at j follows the iframe comment with only the rest of the
   comment line and line breaks / white space in between *)
ImmediatelyAfterComment(s, j) ==
  LET b == j - Len(WsBefore(s, j))
  IN  /\ b < j
      /\ \E c \in 1..(b-1) :
            /\ s[c].k = "CM"
            /\ \A p \in (c+1)..(b-1) : ~IsNewline(s[p])

(* the call at j is on the line after a click() call *)
AfterClick(s, j) ==
  LET b == j - Len(WsBefore(s, j))
  IN  b > 1 /\ s[b-1].k = "CK" /\ Indented(s, j)

Contextual(s, j) ==
  /\ IsTimeout(s[j])
  /\ \/ ImmediatelyAfterComment(s, j) /\ Indented(s, j)
     \/ AfterClick(s, j)

(* the positions of content that hold what became of the lexeme read at j *)
AtId(s, j) == {p \in 1..Len(s) : s[p].id = j}

IsCall(t) == t.k \in GotoKinds \cup {"NI", "TO"}

(* the calls of the text read that are no longer in the text as they were *)
ReplacedSites(old, new) ==
  {j \in 1..Len(old) : IsCall(old[j]) /\ \A p \in 1..Len(new) : new[p] # old[j]}

(* C1: a second pass of the five rules over the result of fix_file makes no
   substitution and returns the same text *)
C1_Idempotent ==
  pc = "fix_write" =>
    /\ FixText(content).text = content
    /\ FixText(content).n = 0

(* C2: the count of fix_file is the number of calls that were replaced, one
   for each rewritten goto call as for the other rules *)
C2_CountIsSites ==
  pc = "fix_write" => changes = Cardinality(ReplacedSites(original, content))

(* C3: main hands a file to fix_file exactly when its text contains
   'waitForTimeout' or 'networkidle' *)
C3_PrefilterIff ==
  entry = "main" =>
    /\ \A f \in skipped :
          ~(Contains("waitForTimeout", fs[f]) \/ Contains("networkidle", fs[f]))
    /\ pc = "fix_open" =>
          (Contains("waitForTimeout", fs[idx]) \/ Contains("networkidle", fs[idx]))

(* C4: a goto call that has a second argument never receives the injected
   options, whatever else is on its line *)
C4_SecondArgUntouched ==
  \A p \in 1..Len(content) :
     content[p].k \in {"G2", "G3", "G2N"} => content[p].inj = 0

(* C5: rule 3 replaces a waitForTimeout call only if it directly follows the
   iframe comment, with nothing but the rest of the comment line and white
   space in between *)
C5_OnlyAdjacent ==
  pc = "fix4" =>
    \A p \in 1..Len(content) :
       content[p].k = "R3" => ImmediatelyAfterComment(content, p)

(* C6: a waitForTimeout call that matches the pattern of rule 3 or of rule 4
   gets that rule's replacement and neither the replacement nor the TODO
   comment of rule 5 *)
C6_ContextualWins ==
  pc = "fix_write" =>
    \A j \in 1..Len(original) :
       Contextual(original, j) =>
         /\ \E p \in AtId(content, j) : content[p].k \in {"R3", "R4"}
         /\ \A p \in AtId(content, j) : content[p].k \notin {"R5", "R5C", "TO"}

C6_Witness ==
  /\ pc = "fix_write"
  /\ \E j \in 1..Len(original) : Contextual(original, j) /\ AfterClick(original, j)
  /\ \E p \in 1..Len(content) : content[p].k = "R4"
  /\ \E p \in 1..Len(content) : content[p].k = "R5C"

(* C7: a text without a networkidle wait, a single-argument goto call and a
   waitForTimeout call is returned unchanged with count 0 and is not written *)
Clean(s) == \A i \in 1..Len(s) : s[i].k \notin {"NI", "G1", "TO"}

C7_CleanNoop ==
  /\ (pc = "fix_write" /\ Clean(original)) => (content = original /\ changes = 0)
  /\ (pc = "returned" /\ Clean(original)) => (idx \notin wrote /\ ret = 0)

(* C8: fix_file writes the file exactly when the text changed; an unchanged
   file is left as it was and 0 is returned, a written file has a count
   above 0, and main counts exactly the files that were written *)
C8_WriteIffChanged ==
  /\ pc = "returned" =>
       /\ (idx \in wrote) <=> (content # original)
       /\ idx \notin wrote => (ret = 0 /\ fs[idx] = original)
       /\ idx \in wrote => (ret > 0 /\ fs[idx] = content)
  /\ (entry = "main" /\ pc \in {"for", "done"}) => total_files = Cardinality(wrote)

C8_Witness ==
  /\ pc = "done"
  /\ wrote # {}
  /\ total_files = 1
  /\ fs[1] # original \/ skipped # {}

(* C9 as stated: a failure of one file's read or write does not stop main *)
C9_Isolation ==
  (entry = "main" /\ failed # {}) => pc # "crashed"

(* C9 amended: a failure of a file's read or write ends the run at that
   file: no later file is examined, handed to fix_file or written, and the
   summary is not reached *)
C9_FailureAborts ==
  failed # {} =>
    /\ pc = "crashed"
    /\ failed = {idx}
    /\ \A f \in spec_files : f > idx => f \notin (passed \cup skipped \cup wrote)

C9_Witness ==
  /\ entry = "main"
  /\ pc = "crashed"
  /\ idx < Len(fs)
  /\ \E f \in spec_files : f > idx /\ ~PrefilterSkips(fs[f])

(* C10: after the five rules no waitForTimeout call is left; every such call
   of the text read was replaced by exactly one of rules 3, 4 and 5, and
   rule 5 keeps the call's duration as the timeout *)
C10_AllTimeoutsReplaced ==
  pc = "fix_write" =>
    /\ \A p \in 1..Len(content) : ~IsTimeout(content[p])
    /\ \A j \in 1..Len(original) :
          IsTimeout(original[j]) =>
            LET reps == {p \in AtId(content, j) : content[p].k \in {"R3", "R4", "R5"}}
            IN  /\ Cardinality(reps) = 1
                /\ \A p \in reps : content[p].k = "R5" => content[p].d = original[j].d
    /\ \A p \in 1..Len(content) :
          content[p].k \in {"R3", "R4", "R5"} =>
            content[p].id \in 1..Len(original) /\ IsTimeout(original[content[p].id])

C10_Witness ==
  /\ pc = "fix_write"
  /\ \E p \in 1..Len(content) : content[p].k = "R5" /\ content[p].d = 300
  /\ \E p \in 1..Len(content) : content[p].k = "R5" /\ content[p].d = 500
  /\ \E p \in 1..Len(content) : content[p].k \in {"R3", "R4"}

====
